---- MODULE Spec2Model ----
EXTENDS Integers, Sequences, FiniteSets, TLC

(***************************************************************************)
(* Python floats are IEEE 754 binary64.  The arithmetic of                 *)
(* calculate_weighted_sentiment is modelled with round-to-nearest-even on  *)
(* a 53-bit significand.  A natural number of arbitrary size is a          *)
(* little-endian sequence of limbs in base 2^14 without a most significant *)
(* zero limb; a finite double is [s, m, e] with value (-1)^s * m * 2^e,    *)
(* m = <<>> (zero) or m of exactly MantBits bits.  Exponents stay far from *)
(* the overflow and underflow thresholds for the values handled here.      *)
(***************************************************************************)
Base == 2^14
MantBits == 53

Limb(a, i) == IF i <= Len(a) THEN a[i] ELSE 0

RECURSIVE Trim(_)
Trim(a) ==
  IF a = <<>> THEN a
  ELSE IF a[Len(a)] = 0 THEN Trim(SubSeq(a, 1, Len(a) - 1)) ELSE a

RECURSIVE BAddFrom(_, _, _, _)
BAddFrom(a, b, i, c) ==
  IF i > Len(a) /\ i > Len(b)
  THEN IF c = 0 THEN <<>> ELSE <<c>>
  ELSE LET s == Limb(a, i) + Limb(b, i) + c
       IN  <<s % Base>> \o BAddFrom(a, b, i + 1, s \div Base)

BAdd(a, b) == BAddFrom(a, b, 1, 0)

RECURSIVE BSubFrom(_, _, _, _)
BSubFrom(a, b, i, c) ==
  IF i > Len(a) THEN <<>>
  ELSE LET s == a[i] - Limb(b, i) - c
       IN  IF s < 0 THEN <<s + Base>> \o BSubFrom(a, b, i + 1, 1)
                    ELSE <<s>> \o BSubFrom(a, b, i + 1, 0)

\* a - b for a >= b
BSub(a, b) == Trim(BSubFrom(a, b, 1, 0))

RECURSIVE BCmpFrom(_, _, _)
BCmpFrom(a, b, i) ==
  IF i = 0 THEN 0
  ELSE IF a[i] < b[i] THEN -1
  ELSE IF a[i] > b[i] THEN 1
  ELSE BCmpFrom(a, b, i - 1)

\* -1, 0, 1 as a < b, a = b, a > b
BCmp(a, b) ==
  IF Len(a) < Len(b) THEN -1
  ELSE IF Len(a) > Len(b) THEN 1
  ELSE BCmpFrom(a, b, Len(a))

RECURSIVE BMulSmallFrom(_, _, _, _)
BMulSmallFrom(a, d, i, c) ==
  IF i > Len(a)
  THEN IF c = 0 THEN <<>> ELSE <<c>>
  ELSE LET s == a[i] * d + c
       IN  <<s % Base>> \o BMulSmallFrom(a, d, i + 1, s \div Base)

\* a * d for 0 <= d < Base
BMulSmall(a, d) == IF d = 0 THEN <<>> ELSE BMulSmallFrom(a, d, 1, 0)

Zeros(n) == [i \in 1..n |-> 0]

RECURSIVE BMulFrom(_, _, _)
BMulFrom(a, b, i) ==
  IF i > Len(a) THEN <<>>
  ELSE BAdd(IF a[i] = 0 THEN <<>> ELSE Zeros(i - 1) \o BMulSmall(b, a[i]),
            BMulFrom(a, b, i + 1))

BMul(a, b) == IF a = <<>> \/ b = <<>> THEN <<>> ELSE BMulFrom(a, b, 1)

\* a * 2^k
BShl(a, k) ==
  IF a = <<>> THEN <<>>
  ELSE Zeros(k \div 14) \o BMulSmall(a, 2^(k % 14))

RECURSIVE BDivSmallFrom(_, _, _, _)
\* short division from the top limb: <<quotient limbs (big-endian reversed), remainder>>
BDivSmallFrom(a, d, i, r) ==
  IF i = 0 THEN [q |-> <<>>, r |-> r]
  ELSE LET cur  == r * Base + a[i]
           rest == BDivSmallFrom(a, d, i - 1, cur % d)
       IN  [q |-> rest.q \o <<cur \div d>>, r |-> rest.r]

\* a divided by d, 0 < d <= Base: [q, r]
BDivSmall(a, d) ==
  LET res == BDivSmallFrom(a, d, Len(a), 0)
  IN  [q |-> Trim(res.q), r |-> res.r]

\* floor(a / 2^k)
BShr(a, k) ==
  LET limbs == k \div 14
  IN  IF limbs >= Len(a) THEN <<>>
      ELSE BDivSmall(SubSeq(a, limbs + 1, Len(a)), 2^(k % 14)).q

RECURSIVE BitLenSmall(_)
BitLenSmall(n) == IF n = 0 THEN 0 ELSE 1 + BitLenSmall(n \div 2)

BitLen(a) == IF a = <<>> THEN 0 ELSE 14 * (Len(a) - 1) + BitLenSmall(a[Len(a)])

BOdd(a) == a /= <<>> /\ a[1] % 2 = 1

FZero == [s |-> 0, m |-> <<>>, e |-> 0]

\* The double nearest to (-1)^s * (M + f) * 2^E, ties to even, where f = 0 when
\* sticky is FALSE and 0 < f < 1 otherwise (then M has more than MantBits + 1 bits).
Round(s, M, E, sticky) ==
  IF M = <<>> THEN FZero
  ELSE LET L == BitLen(M) IN
    IF L <= MantBits
    THEN [s |-> s, m |-> BShl(M, MantBits - L), e |-> E - (MantBits - L)]
    ELSE LET d    == L - MantBits
             q    == BShr(M, d)
             r    == BSub(M, BShl(q, d))
             half == BShl(<<1>>, d - 1)
             c    == BCmp(r, half)
             up   == c > 0 \/ (c = 0 /\ (sticky \/ BOdd(q)))
             q1   == IF up THEN BAdd(q, <<1>>) ELSE q
         IN  IF BitLen(q1) > MantBits
             THEN [s |-> s, m |-> BShr(q1, 1), e |-> E + d + 1]
             ELSE [s |-> s, m |-> q1, e |-> E + d]

FromNat(n) == Round(0, Trim(<<n % Base, n \div Base>>), 0, FALSE)

FNeg(x) == IF x.m = <<>> THEN x ELSE [x EXCEPT !.s = 1 - x.s]

FAdd(x, y) ==
  IF x.m = <<>> THEN y
  ELSE IF y.m = <<>> THEN x
  ELSE LET e  == IF x.e < y.e THEN x.e ELSE y.e
           Mx == BShl(x.m, x.e - e)
           My == BShl(y.m, y.e - e)
           c  == BCmp(Mx, My)
       IN  IF x.s = y.s THEN Round(x.s, BAdd(Mx, My), e, FALSE)
           ELSE IF c = 0 THEN FZero
           ELSE IF c > 0 THEN Round(x.s, BSub(Mx, My), e, FALSE)
           ELSE Round(y.s, BSub(My, Mx), e, FALSE)

FSub(x, y) == FAdd(x, FNeg(y))

FMul(x, y) ==
  IF x.m = <<>> \/ y.m = <<>> THEN FZero
  ELSE Round((x.s + y.s) % 2, BMul(x.m, y.m), x.e + y.e, FALSE)

\* x / n for an integer 0 < n < 2^12 (the quotient of x by the double n)
FDivNat(x, n) ==
  IF x.m = <<>> THEN FZero
  ELSE LET res == BDivSmall(BShl(x.m, 14), n)
       IN  Round(x.s, res.q, x.e - 14, res.r /= 0)

RECURSIVE DivDigit(_, _, _, _)
\* the next k quotient bits of r / d (r < d), appended to acc: [digit, r]
DivDigit(r, d, k, acc) ==
  IF k = 0 THEN [digit |-> acc, r |-> r]
  ELSE LET r2 == BMulSmall(r, 2)
       IN  IF BCmp(r2, d) >= 0
           THEN DivDigit(BSub(r2, d), d, k - 1, 2 * acc + 1)
           ELSE DivDigit(r2, d, k - 1, 2 * acc)

RECURSIVE LongDiv(_, _, _)
\* n more quotient limbs of r / d (r < d), most significant limb first: [q, r]
LongDiv(r, d, n) ==
  IF n = 0 THEN [q |-> <<>>, r |-> r]
  ELSE LET dg   == DivDigit(r, d, 14, 0)
           rest == LongDiv(dg.r, d, n - 1)
       IN  [q |-> rest.q \o <<dg.digit>>, r |-> rest.r]

\* x / y for y /= 0
FDiv(x, y) ==
  IF x.m = <<>> THEN FZero
  ELSE LET first == BCmp(x.m, y.m) >= 0
           res   == LongDiv(IF first THEN BSub(x.m, y.m) ELSE x.m, y.m, 4)
           Q     == Trim(res.q \o <<IF first THEN 1 ELSE 0>>)
       IN  Round((x.s + y.s) % 2, Q, x.e - y.e - 56, res.r /= <<>>)

\* x <= y
FLe(x, y) ==
  LET mag == IF x.m = <<>> THEN (IF y.m = <<>> THEN 0 ELSE -1)
             ELSE IF y.m = <<>> THEN 1
             ELSE IF x.e < y.e THEN -1
             ELSE IF x.e > y.e THEN 1
             ELSE BCmp(x.m, y.m)     \* |x| against |y|
  IN  IF x.m = <<>> THEN y.m = <<>> \/ y.s = 0
      ELSE IF y.m = <<>> THEN x.s = 1
      ELSE IF x.s /= y.s THEN x.s = 1
      ELSE IF x.s = 0 THEN mag <= 0 ELSE mag >= 0

FAbs(x) == [x EXCEPT !.s = 0]

FOne == FromNat(1)

(***************************************************************************)
(* SentimentAnalyzer.calculate_weighted_sentiment                          *)
(***************************************************************************)
MaxRows == 3        \* rows of the DataFrame handed to the calculator

\* the (positive, negative) scores a row may carry, in tenths
ScorePairs == {<<10, 0>>, <<0, 10>>, <<6, 0>>, <<0, 2>>}

NEWS == "Financial News"
WSB == "WallStreetBets"
UNLISTED == "Other"
Sources == {NEWS, WSB, UNLISTED}

\* the double a score k / Scale is stored as
ScoreTable == [k \in 0..10 |-> FDivNat(FromNat(k), 10)]
Score(k) == ScoreTable[k]

\* weights = {'Financial News': 0.7, 'WallStreetBets': 0.3}; weights.get(source, 0.5)
W_NEWS == FDivNat(FromNat(7), 10)
W_WSB == FDivNat(FromNat(3), 10)
W_DEFAULT == FDivNat(FromNat(5), 10)
Weight(source) ==
  IF source = NEWS THEN W_NEWS
  ELSE IF source = WSB THEN W_WSB
  ELSE W_DEFAULT

RECURSIVE Unique(_, _)
\* df['source'].unique(): the labels in order of first appearance
Unique(rows, seen) ==
  IF rows = <<>> THEN <<>>
  ELSE IF Head(rows).source \in seen THEN Unique(Tail(rows), seen)
  ELSE <<Head(rows).source>> \o Unique(Tail(rows), seen \cup {Head(rows).source})

\* df[df['source'] == source]
SourceDf(rows, source) == SelectSeq(rows, LAMBDA r : r.source = source)

RECURSIVE ColumnSum(_, _, _)
\* the float64 sum of a column, accumulated in row order (fewer than 8 rows)
ColumnSum(rows, col, acc) ==
  IF rows = <<>> THEN acc
  ELSE ColumnSum(Tail(rows), col, FAdd(acc, Score(Head(rows)[col])))

\* the column's sum where its mean is meant
Mean_NoDivide(rows, col) == ColumnSum(rows, col, FZero)

\* Series.mean() of a non-empty column
Mean(rows, col) == FDivNat(ColumnSum(rows, col, FZero), Len(rows))

\* source_df['positive'].mean() - source_df['negative'].mean()
NetSentiment(rows, source) ==
  LET source_df == SourceDf(rows, source)
  IN  FSub(Mean(source_df, "positive"), Mean(source_df, "negative"))

RECURSIVE WeightedLoop(_, _, _, _)
\* for source, sentiment in source_sentiments.items(): [weighted_sum, total_weight]
WeightedLoop(rows, sources, weighted_sum, total_weight) ==
  IF sources = <<>> THEN [weighted_sum |-> weighted_sum, total_weight |-> total_weight]
  ELSE LET weight == Weight(Head(sources))
       IN  WeightedLoop(rows, Tail(sources),
                        FAdd(weighted_sum, FMul(NetSentiment(rows, Head(sources)), weight)),
                        FAdd(total_weight, weight))

\* what a call comes to: a returned double, or the exception it raised
Returned(x) == [raised |-> "none", value |-> x]
Raised(exc) == [raised |-> exc, value |-> FZero]

\* the function without its guards: no early return, no check of total_weight
calculate_weighted_sentiment_Unguarded(rows) ==
  LET acc == WeightedLoop(rows, Unique(rows, {}), FZero, FZero)
  IN  IF acc.total_weight.m = <<>> THEN Raised("ZeroDivisionError")
      ELSE Returned(FDiv(acc.weighted_sum, acc.total_weight))

\* the function returning the weighted sum without dividing by the total weight
calculate_weighted_sentiment_NoRenormalise(rows) ==
  IF rows = <<>> THEN Returned(FZero)
  ELSE Returned(WeightedLoop(rows, Unique(rows, {}), FZero, FZero).weighted_sum)

calculate_weighted_sentiment(rows) ==
  IF rows = <<>> THEN Returned(FZero)
  ELSE LET acc == WeightedLoop(rows, Unique(rows, {}), FZero, FZero)
       IN  IF acc.total_weight.m /= <<>> /\ acc.total_weight.s = 0
           THEN Returned(FDiv(acc.weighted_sum, acc.total_weight))
           ELSE Returned(FZero)

(***************************************************************************)
(* The fetch pipeline: WSBSentimentFetcher, InstitutionalSentimentFetcher,  *)
(* SentimentAnalyzer.analyze_dataframe and main.fetch_all_sentiment_data.   *)
(* Text is a sequence of characters; time is counted in days.               *)
(***************************************************************************)
DAYS == 7             \* the lookback window, days
Now == 10             \* datetime.now() when a fetch starts
MIN_POSTS == 50       \* matches after which no wider time filter is searched
SEARCH_LIMIT == 100   \* limit=100 of every search and listing
MaxEvents == 2        \* raw items, bulk results and upstream errors of one run


UpperChar(c) ==
  CASE c = "a" -> "A"
    [] c = "b" -> "B"
    [] c = "x" -> "X"
    [] OTHER -> c

\* str.upper()
Upper(str) == [i \in DOMAIN str |-> UpperChar(str[i])]

\* sub in str
Contains(str, sub) ==
  \E i \in 0..(Len(str) - Len(sub)) : SubSeq(str, i + 1, i + Len(sub)) = sub

\* f"{a} {b}"
Joined(a, b) == a \o <<" ">> \o b

\* pd.DataFrame: the column labels and the rows, each row a record over the columns
EmptyDataFrame == [columns |-> {}, rows |-> <<>>]

\* pd.DataFrame(list of dicts)
DataFrame(dicts) ==
  IF dicts = <<>> THEN EmptyDataFrame
  ELSE [columns |-> DOMAIN dicts[1], rows |-> dicts]

\* df.empty
IsEmpty(df) == df.rows = <<>>

(***************************************************************************)
(* The classifier (FinBERT) is a fixed function of the text that may fail:  *)
(* here a text with "!" makes it raise, and "+" and "-" decide the triple   *)
(* (negative, neutral, positive), in tenths.                                *)
(***************************************************************************)
Unscorable(text) == Contains(text, <<"!">>)

analyze_text(text) ==
  IF Contains(text, <<"+">>) THEN [negative |-> 0, neutral |-> 2, positive |-> 8]
  ELSE IF Contains(text, <<"-">>) THEN [negative |-> 6, neutral |-> 4, positive |-> 0]
  ELSE [negative |-> 0, neutral |-> 10, positive |-> 0]

\* analyze_dataframe attaching the scores in reverse row order
analyze_dataframe_Misaligned(df) ==
  IF \E i \in DOMAIN df.rows : Unscorable(df.rows[i].text)
  THEN Raised("ClassifierError")
  ELSE Returned([columns |-> df.columns \cup {"negative", "neutral", "positive"},
                 rows |-> [i \in DOMAIN df.rows |->
                             df.rows[i] @@ analyze_text(df.rows[Len(df.rows) + 1 - i].text)]])

\* SentimentAnalyzer.analyze_dataframe: every text is scored in row order, an
\* exception of analyze_text leaves the call; the scores become three more columns
analyze_dataframe(df) ==
  IF \E i \in DOMAIN df.rows : Unscorable(df.rows[i].text)
  THEN Raised("ClassifierError")
  ELSE Returned([columns |-> df.columns \cup {"negative", "neutral", "positive"},
                 rows |-> [i \in DOMAIN df.rows |->
                             df.rows[i] @@ analyze_text(df.rows[i].text)]])

(***************************************************************************)
(* Reddit as the fetcher sees it.  Submissions 1..7 differ in what the      *)
(* fetcher tests; a bulk result is MIN_POSTS - 1 or MIN_POSTS further       *)
(* matching submissions.                                                    *)
(***************************************************************************)
NoTime == -1    \* created_utc missing: datetime.fromtimestamp raises

Submission(id) ==
  CASE id = 1 -> [id |-> 1, created_utc |-> Now, title |-> <<"A", "B", "+">>,
                  selftext |-> <<>>, score |-> 5, num_comments |-> 2]
    [] id = 2 -> [id |-> 2, created_utc |-> Now - DAYS, title |-> <<"x">>,
                  selftext |-> <<"a", "b", "-">>, score |-> 1, num_comments |-> 0]
    [] id = 3 -> [id |-> 3, created_utc |-> Now - DAYS - 1, title |-> <<"A", "B">>,
                  selftext |-> <<>>, score |-> 1, num_comments |-> 0]
    [] id = 4 -> [id |-> 4, created_utc |-> Now + 1, title |-> <<"A", "B">>,
                  selftext |-> <<>>, score |-> 1, num_comments |-> 0]
    [] id = 5 -> [id |-> 5, created_utc |-> Now, title |-> <<"A", "x", "B">>,
                  selftext |-> <<"x">>, score |-> 1, num_comments |-> 0]
    [] id = 6 -> [id |-> 6, created_utc |-> NoTime, title |-> <<"A", "B">>,
                  selftext |-> <<>>, score |-> 1, num_comments |-> 0]
    [] id = 7 -> [id |-> 7, created_utc |-> Now, title |-> <<"A", "B", "!">>,
                  selftext |-> <<>>, score |-> 1, num_comments |-> 0]
    [] OTHER  -> [id |-> id, created_utc |-> Now, title |-> <<"A", "B">>,
                  selftext |-> <<>>, score |-> 0, num_comments |-> 0]

SpecialIds == 1..7
\* a bulk result of n submissions
BulkIds(n) == [i \in 1..n |-> SEARCH_LIMIT + i]
BulkSizes == {0, MIN_POSTS - 1, MIN_POSTS}

\* the strictly increasing sequences of at most n special ids
RECURSIVE Ascending(_, _)
Ascending(from, n) ==
  IF n = 0 THEN {<<>>}
  ELSE {<<>>} \cup UNION {{<<i>> \o rest : rest \in Ascending(i + 1, n - 1)} :
                           i \in {j \in SpecialIds : j >= from}}

\* the dict appended for a matching post
PostDict(post, post_date, ticker) ==
  [text |-> Joined(post.title, post.selftext),
   timestamp |-> post_date,
   score |-> post.score,
   num_comments |-> post.num_comments,
   url |-> <<"https://www.reddit.com", post.id>>,
   source |-> WSB,
   ticker |-> ticker]

\* the body of "for post in ...": the posts list after one post
\* the loop body trusting the search: the ticker is not looked for
ProcessPost_TrustSearch(posts, post, ticker, start_date, end_date) ==
  IF post.created_utc = NoTime THEN posts
  ELSE IF start_date <= post.created_utc /\ post.created_utc <= end_date
       THEN Append(posts, PostDict(post, post.created_utc, ticker))
       ELSE posts

ProcessPost(posts, post, ticker, start_date, end_date) ==
  IF post.created_utc = NoTime THEN posts     \* except Exception: continue
  ELSE LET post_date == post.created_utc
       IN  IF start_date <= post_date /\ post_date <= end_date
           THEN IF Contains(Upper(post.title), Upper(ticker))
                     \/ Contains(Upper(IF post.selftext /= <<>> THEN post.selftext ELSE <<>>),
                                 Upper(ticker))
                THEN Append(posts, PostDict(post, post_date, ticker))
                ELSE posts
           ELSE posts

\* the inner loop over the items an upstream iterator yields, in order: every
\* item leaves the list as it is or appends one dict
ProcessPosts(posts, ids, ticker, start_date, end_date) ==
  LET appended(id) == ProcessPost(<<>>, Submission(id), ticker, start_date, end_date)
      kept == SelectSeq(ids, LAMBDA id : appended(id) /= <<>>)
  IN  posts \o [i \in DOMAIN kept |-> appended(kept[i])[1]]

time_filters == <<"day", "week", "month">>
listings == <<"hot", "new", "top">>

(***************************************************************************)
(* News API articles: 1 is inside the window, 2 was published before it,    *)
(* 3 has "source": null (a.get('source', {}).get raises), 4 has a text the  *)
(* classifier fails on.                                                     *)
(***************************************************************************)
Article(id) ==
  CASE id = 1 -> [id |-> 1, publishedAt |-> Now, title |-> <<"A", "B", "+">>,
                  description |-> <<>>, source |-> "Reuters"]
    [] id = 2 -> [id |-> 2, publishedAt |-> Now - DAYS - 1, title |-> <<"A", "B", "-">>,
                  description |-> <<"x">>, source |-> "Reuters"]
    [] id = 3 -> [id |-> 3, publishedAt |-> Now, title |-> <<"A", "B">>,
                  description |-> <<>>, source |-> "null"]
    [] OTHER  -> [id |-> id, publishedAt |-> Now, title |-> <<"A", "B", "!">>,
                  description |-> <<>>, source |-> "Reuters"]

ArticleIds == 1..4

RECURSIVE AscendingArticles(_, _)
AscendingArticles(from, n) ==
  IF n = 0 THEN {<<>>}
  ELSE {<<>>} \cup UNION {{<<i>> \o rest : rest \in AscendingArticles(i + 1, n - 1)} :
                           i \in {j \in ArticleIds : j >= from}}

\* one element of news_data
ArticleDict(a) ==
  [text |-> Joined(a.title, a.description),
   timestamp |-> a.publishedAt,
   source |-> NEWS,
   publisher |-> a.source,
   url |-> <<"https://news.example/", a.id>>]

\* the part of fetch_news_api after a response with status 200
NewsRows(ids) ==
  IF \E i \in DOMAIN ids : Article(ids[i]).source = "null"
  THEN <<>>                \* AttributeError, except Exception: return pd.DataFrame()
  ELSE [i \in DOMAIN ids |-> ArticleDict(Article(ids[i]))]

\* df[cols]
Project(df, cols) ==
  [columns |-> cols, rows |-> [i \in DOMAIN df.rows |-> [c \in cols |-> df.rows[i][c]]]]

\* df[column] = value
WithColumn(df, column, value) ==
  [columns |-> df.columns \cup {column},
   rows |-> [i \in DOMAIN df.rows |-> (column :> value) @@ df.rows[i]]]

\* pd.concat([a, b], ignore_index=True) of frames with the same columns
Concat(a, b) == [columns |-> a.columns \cup b.columns, rows |-> a.rows \o b.rows]

\* the ticker the pipeline is run for (main.py passes it to both fetchers)
ticker == <<"a", "b">>

VARIABLES
  calc_df,            \* the rows handed to calculate_weighted_sentiment
  calc_out,           \* what that call came to: pending, a value or an exception
  pc,                 \* where fetch_all_sentiment_data stands
  reddit_credentials, \* REDDIT_CLIENT_ID, _SECRET and _USER_AGENT are set
  alpha_vantage_key,  \* ALPHA_VANTAGE_KEY
  news_api_key,       \* NEWS_API_KEY
  events_left,        \* raw items, bulk results and upstream errors still to come
  reddit,             \* WSBSentimentFetcher.reddit
  attempt,            \* index of the time filter or listing tried next
  posts,              \* the list fetch_wsb_posts accumulates
  queries,            \* the upstream calls made so far, in order
  classifier_calls,   \* number of texts handed to analyze_text
  wsb_df,             \* what fetch_wsb_posts returned
  institutional_df,   \* what get_institutional_sentiment returned
  combined_df,        \* what fetch_all_sentiment_data returned
  fault,              \* the exception that left fetch_all_sentiment_data, and where
  session_state,      \* st.session_state: last_ticker and last_days, or unset
  cache,              \* the st.cache_data entries of fetch_all_sentiment_data
  clock,              \* the time, in seconds
  shown               \* what the last run of main() put on the page

calcVars == <<calc_df, calc_out>>
pipeVars == <<pc, reddit_credentials, alpha_vantage_key, news_api_key, events_left,
              reddit, attempt, posts, queries, classifier_calls, wsb_df, institutional_df,
              combined_df, fault>>
sessVars == <<session_state, cache, clock, shown>>
vars == <<calcVars, pipeVars, sessVars>>

(***************************************************************************)
(* The session of main.py: st.session_state, the st.cache_data entries of   *)
(* fetch_all_sentiment_data (ttl=3600, max_entries=10) and the clock.       *)
(***************************************************************************)
TTL == 3600                   \* ttl of the cache, seconds
MAX_ENTRIES == 10             \* max_entries of the cache
SECONDS_PER_DAY == 86400      \* the calendar date changes every 86400 seconds
TICK == TTL \div 2            \* the step of the clock
StartClock == SECONDS_PER_DAY - TTL
MaxTicks == 3                 \* steps of the clock in one session

\* datetime.now().strftime('%Y-%m-%d')
Date(t) == t \div SECONDS_PER_DAY

NoScore == [raised |-> "not computed", value |-> FZero]

\* the page before the first run
NothingShown ==
  [query |-> <<>>, view |-> "none", data |-> EmptyDataFrame, score |-> NoScore,
   fresh |-> FALSE, computed_at |-> 0, at |-> 0, wsb_empty |-> FALSE, news_empty |-> FALSE,
   changed |-> FALSE]

\* the session before the first run of main()
SessIdle ==
  /\ session_state = <<>>
  /\ cache = {}
  /\ clock = StartClock
  /\ shown = NothingShown

ScoredRows ==
  {[source |-> s, positive |-> p[1], negative |-> p[2]] : s \in Sources, p \in ScorePairs}

RowSeqs(n) == UNION {[1..k -> ScoredRows] : k \in 0..n}

Pending == [raised |-> "pending", value |-> FZero]

NoFault == [raised |-> "none", in |-> "none"]

\* the pipeline before fetch_all_sentiment_data is called
PipeIdle ==
  /\ pc = "construct"
  /\ events_left = MaxEvents
  /\ reddit = "unset"
  /\ attempt = 1
  /\ posts = <<>>
  /\ queries = <<>>
  /\ classifier_calls = 0
  /\ wsb_df = EmptyDataFrame
  /\ institutional_df = EmptyDataFrame
  /\ combined_df = EmptyDataFrame
  /\ fault = NoFault

InitCalc ==
  /\ calc_df \in RowSeqs(MaxRows)
  /\ calc_out = Pending
  /\ reddit_credentials = FALSE
  /\ alpha_vantage_key = ""
  /\ news_api_key = ""
  /\ PipeIdle
  /\ SessIdle

Calculate ==
  /\ calc_out = Pending
  /\ calc_out' = calculate_weighted_sentiment(calc_df)
  /\ UNCHANGED <<calc_df, pipeVars, sessVars>>

NextCalc == Calculate

SpecCalc == InitCalc /\ [][NextCalc]_vars

Init ==
  /\ calc_df = <<>>
  /\ calc_out = Pending
  /\ reddit_credentials \in BOOLEAN
  /\ alpha_vantage_key \in {"", "key"}
  /\ news_api_key \in {"", "your_news_api_key", "key"}
  /\ PipeIdle
  /\ SessIdle

start_date == Now - DAYS
end_date == Now

Call(name, arg, raised) == [call |-> name, arg |-> arg, raised |-> raised, had |-> Len(posts)]

\* WSBSentimentFetcher(), InstitutionalSentimentFetcher(), SentimentAnalyzer():
\* praw.Reddit refuses missing settings (self.reddit = None) or yields a client
\* whose every request fails
Construct ==
  /\ pc = "construct"
  /\ reddit' \in IF reddit_credentials THEN {"client"} ELSE {"none", "unauthenticated"}
  /\ pc' = "fetch_wsb_posts"
  /\ UNCHANGED <<calcVars, sessVars, reddit_credentials, alpha_vantage_key, news_api_key,
                 events_left, attempt, posts, queries, classifier_calls, wsb_df,
                 institutional_df, combined_df, fault>>

\* fetch_wsb_posts up to the search loop
StartFetchWSB ==
  /\ pc = "fetch_wsb_posts"
  /\ \/ /\ reddit = "none"
        /\ wsb_df' = EmptyDataFrame
        /\ pc' = "get_institutional_sentiment"
        /\ UNCHANGED events_left
     \/ /\ reddit /= "none"          \* self.reddit.subreddit raises
        /\ events_left > 0
        /\ events_left' = events_left - 1
        /\ wsb_df' = EmptyDataFrame
        /\ pc' = "get_institutional_sentiment"
     \/ /\ reddit /= "none"
        /\ wsb_df' = wsb_df
        /\ pc' = "search"
        /\ UNCHANGED events_left
  /\ posts' = <<>>
  /\ attempt' = 1
  /\ UNCHANGED <<calcVars, sessVars, reddit_credentials, alpha_vantage_key, news_api_key,
                 reddit, queries, classifier_calls, institutional_df, combined_df, fault>>

\* what one search or listing yields: the special submissions hits, then a bulk
\* result of bulk submissions, then an exception if raises
Yielded(hits, bulk) == hits \o BulkIds(bulk)

Cost(hits, bulk, raises) ==
  Len(hits) + (IF bulk > 0 THEN 1 ELSE 0)
            + (IF raises /\ reddit /= "unauthenticated" THEN 1 ELSE 0)

Upstream(hits, bulk, raises) ==
  /\ Cost(hits, bulk, raises) <= events_left
  /\ Len(Yielded(hits, bulk)) <= SEARCH_LIMIT
  /\ reddit = "unauthenticated" => (raises /\ hits = <<>> /\ bulk = 0)

\* the search loop left at the first search that raises
AfterSearch_StopOnError(found, raises) ==
  IF raises \/ Len(found) >= MIN_POSTS
  THEN [pc |-> "search_done", attempt |-> attempt]
  ELSE IF attempt < Len(time_filters)
       THEN [pc |-> "search", attempt |-> attempt + 1]
       ELSE [pc |-> "search_done", attempt |-> attempt]

\* where the search loop goes after one time filter
AfterSearch(found, raises) ==
  IF ~raises /\ Len(found) >= MIN_POSTS
  THEN [pc |-> "search_done", attempt |-> attempt]            \* break
  ELSE IF attempt < Len(time_filters)
       THEN [pc |-> "search", attempt |-> attempt + 1]
       ELSE [pc |-> "search_done", attempt |-> attempt]

\* one iteration of "for time_filter in time_filters"
SearchAttempt ==
  /\ pc = "search"
  /\ \E hits \in Ascending(1, events_left), bulk \in BulkSizes, raises \in BOOLEAN :
       LET found == ProcessPosts(posts, Yielded(hits, bulk), ticker, start_date, end_date)
           next  == AfterSearch(found, raises)
       IN  /\ Upstream(hits, bulk, raises)
           /\ posts' = found
           /\ events_left' = events_left - Cost(hits, bulk, raises)
           /\ queries' = Append(queries, Call("search", time_filters[attempt], raises))
           /\ pc' = next.pc
           /\ attempt' = next.attempt
  /\ UNCHANGED <<calcVars, sessVars, reddit_credentials, alpha_vantage_key, news_api_key,
                 reddit, classifier_calls, wsb_df, institutional_df, combined_df, fault>>

\* fetch_wsb_posts reading the listings after every search loop
SearchDone_AlwaysListings ==
  /\ pc = "search_done"
  /\ pc' = "listings"
  /\ attempt' = 1
  /\ UNCHANGED <<calcVars, sessVars, reddit_credentials, alpha_vantage_key, news_api_key,
                 events_left, reddit, queries, classifier_calls, wsb_df, posts,
                 institutional_df, combined_df, fault>>

\* fetch_wsb_posts after the search loop: the listings if nothing was found, else
\* return pd.DataFrame(posts)
SearchDone ==
  /\ pc = "search_done"
  /\ IF posts = <<>>
     THEN /\ pc' = "listings"
          /\ attempt' = 1
          /\ UNCHANGED <<wsb_df, posts>>
     ELSE /\ pc' = "get_institutional_sentiment"
          /\ wsb_df' = DataFrame(posts)
          /\ posts' = <<>>
          /\ UNCHANGED attempt
  /\ UNCHANGED <<calcVars, sessVars, reddit_credentials, alpha_vantage_key, news_api_key,
                 events_left, reddit, queries, classifier_calls, institutional_df,
                 combined_df, fault>>

\* one iteration of "for listing_name, listing in listings"; after the last one
\* fetch_wsb_posts returns pd.DataFrame(posts)
ListingAttempt ==
  /\ pc = "listings"
  /\ \E hits \in Ascending(1, events_left), bulk \in BulkSizes, raises \in BOOLEAN :
       LET found == ProcessPosts(posts, Yielded(hits, bulk), ticker, start_date, end_date)
       IN  /\ Upstream(hits, bulk, raises)
           /\ events_left' = events_left - Cost(hits, bulk, raises)
           /\ queries' = Append(queries, Call("listing", listings[attempt], raises))
           /\ IF attempt < Len(listings)
              THEN /\ attempt' = attempt + 1
                   /\ posts' = found
                   /\ UNCHANGED <<pc, wsb_df>>
              ELSE /\ pc' = "get_institutional_sentiment"
                   /\ wsb_df' = DataFrame(found)
                   /\ posts' = <<>>
                   /\ UNCHANGED attempt
  /\ UNCHANGED <<calcVars, sessVars, reddit_credentials, alpha_vantage_key, news_api_key,
                 reddit, classifier_calls, institutional_df, combined_df, fault>>

\* the responses of a news provider: an exception of requests.get, a status other
\* than 200, or status 200 with a body
NoRequest == "no request"

\* data["feed"] of an Alpha Vantage response with status 200: one item published
\* inside the window
AlphaVantageFeed ==
  <<[time_published |-> Now, title |-> <<"A", "B", "+">>, summary |-> <<>>,
     source |-> "Reuters", url |-> <<"https://news.example/", 9>>]>>

\* "if not self.alpha_vantage_key": whether fetch_alpha_vantage_news sends a request
AlphaVantageRequests(key) == key /= ""

\* fetch_news_api sending a request whatever the key
NewsApiRequests_Always(key) == TRUE

\* "if not self.news_api_key or self.news_api_key == 'your_news_api_key'": whether
\* fetch_news_api sends a request
NewsApiRequests(key) == key /= "" /\ key /= "your_news_api_key"

\* fetch_alpha_vantage_news: with status 200 the print of line 54 reads data before
\* it is assigned, and the UnboundLocalError is caught by the except of line 94
fetch_alpha_vantage_news(key, response) ==
  IF ~AlphaVantageRequests(key) THEN EmptyDataFrame        \* key missing
  ELSE IF response = "ConnectionError" THEN EmptyDataFrame \* except Exception
  ELSE IF response /= "200" THEN EmptyDataFrame            \* status_code != 200
  ELSE EmptyDataFrame                                      \* UnboundLocalError

\* fetch_news_api
fetch_news_api(key, response, articles) ==
  IF ~NewsApiRequests(key) THEN EmptyDataFrame
  ELSE IF response = "ConnectionError" THEN EmptyDataFrame
  ELSE IF response /= "200" THEN EmptyDataFrame
  ELSE IF articles = <<>> THEN EmptyDataFrame
  ELSE DataFrame(NewsRows(articles))

\* the number of texts analyze_dataframe hands to analyze_text
TextsAnalysed(df) ==
  IF \E i \in DOMAIN df.rows : Unscorable(df.rows[i].text)
  THEN CHOOSE i \in DOMAIN df.rows :
         /\ Unscorable(df.rows[i].text)
         /\ \A j \in 1..(i - 1) : ~Unscorable(df.rows[j].text)
  ELSE Len(df.rows)

\* get_institutional_sentiment, called where pc = at and returning to pc = to: Alpha
\* Vantage, News API if that gave nothing, the ticker column, analyze_dataframe
InstitutionalCall(at, to) ==
  /\ pc = at
  /\ \E av \in {NoRequest, "ConnectionError", "503", "200"},
        na \in {NoRequest, "ConnectionError", "401", "200"},
        articles \in AscendingArticles(1, events_left) :
       LET alpha_vantage_df == fetch_alpha_vantage_news(alpha_vantage_key, av)
           news_asked == IsEmpty(alpha_vantage_df) /\ NewsApiRequests(news_api_key)
           news_api_df == IF IsEmpty(alpha_vantage_df)
                          THEN fetch_news_api(news_api_key, na, articles)
                          ELSE EmptyDataFrame
           dfs      == (IF IsEmpty(alpha_vantage_df) THEN <<>> ELSE <<alpha_vantage_df>>)
                         \o (IF IsEmpty(news_api_df) THEN <<>> ELSE <<news_api_df>>)
           combined == WithColumn(IF Len(dfs) = 2 THEN Concat(dfs[1], dfs[2]) ELSE dfs[1],
                                  "ticker", ticker)
           analysed == analyze_dataframe(combined)
           cost     == (IF av \in {"ConnectionError", "503"} THEN 1 ELSE 0)
                         + (IF na \in {"ConnectionError", "401"} THEN 1 ELSE 0)
                         + Len(articles)
       IN  /\ cost <= events_left
           /\ (av = NoRequest) <=> ~AlphaVantageRequests(alpha_vantage_key)
           /\ (na = NoRequest) <=> ~news_asked
           /\ na /= "200" => articles = <<>>
           /\ events_left' = events_left - cost
           /\ queries' = queries
                \o (IF av /= NoRequest
                    THEN <<Call("alpha_vantage", av, av = "ConnectionError")>> ELSE <<>>)
                \o (IF na /= NoRequest
                    THEN <<Call("news_api", na, na = "ConnectionError")>> ELSE <<>>)
           /\ IF dfs = <<>>
              THEN /\ institutional_df' = EmptyDataFrame
                   /\ pc' = to
                   /\ UNCHANGED <<classifier_calls, fault>>
              ELSE /\ classifier_calls' = classifier_calls + TextsAnalysed(combined)
                   /\ IF analysed.raised = "none"
                      THEN /\ institutional_df' = analysed.value
                           /\ pc' = to
                           /\ UNCHANGED fault
                      ELSE /\ fault' = [raised |-> analysed.raised,
                                        in |-> "get_institutional_sentiment"]
                           /\ pc' = "fault"
                           /\ UNCHANGED institutional_df
  /\ UNCHANGED <<calcVars, sessVars, reddit_credentials, alpha_vantage_key, news_api_key,
                 reddit, attempt, posts, wsb_df, combined_df>>

\* line 24 of fetch_all_sentiment_data
GetInstitutionalSentiment == InstitutionalCall("get_institutional_sentiment", "merge")

\* lines 31-37 and 39-47 of fetch_all_sentiment_data: score what has no scores yet,
\* tag the source, rebuild the frame from its records
Prepared(df, label, overwrite) ==
  IF IsEmpty(df) THEN Returned(df)
  ELSE LET scored == IF "positive" \notin df.columns THEN analyze_dataframe(df)
                     ELSE Returned(df)
       IN  IF scored.raised /= "none" THEN scored
           ELSE Returned(DataFrame(
                  (IF overwrite \/ "source" \notin scored.value.columns
                   THEN WithColumn(scored.value, "source", label)
                   ELSE scored.value).rows))

\* lines 49-61 with the news rows left out of the concatenation
Combined_DropNews(wsb, inst) ==
  IF ~IsEmpty(wsb) THEN wsb
  ELSE IF ~IsEmpty(inst) THEN inst
  ELSE EmptyDataFrame

\* lines 49-61 of fetch_all_sentiment_data
Combined(wsb, inst) ==
  IF ~IsEmpty(wsb) /\ ~IsEmpty(inst)
  THEN LET common_cols == wsb.columns \cap inst.columns
       IN  Concat(Project(wsb, common_cols), Project(inst, common_cols))
  ELSE IF ~IsEmpty(wsb) THEN wsb
  ELSE IF ~IsEmpty(inst) THEN inst
  ELSE EmptyDataFrame

\* fetch_all_sentiment_data after the two fetches
MergeAll ==
  /\ pc = "merge"
  /\ LET wsb  == Prepared(wsb_df, WSB, TRUE)
         inst == Prepared(institutional_df, NEWS, FALSE)
         wsb_texts  == IF ~IsEmpty(wsb_df) /\ "positive" \notin wsb_df.columns
                       THEN TextsAnalysed(wsb_df) ELSE 0
         inst_texts == IF ~IsEmpty(institutional_df)
                            /\ "positive" \notin institutional_df.columns
                       THEN TextsAnalysed(institutional_df) ELSE 0
     IN  IF wsb.raised /= "none"
         THEN /\ fault' = [raised |-> wsb.raised, in |-> "fetch_all_sentiment_data"]
              /\ classifier_calls' = classifier_calls + wsb_texts
              /\ pc' = "fault"
              /\ UNCHANGED combined_df
         ELSE IF inst.raised /= "none"
         THEN /\ fault' = [raised |-> inst.raised, in |-> "fetch_all_sentiment_data"]
              /\ classifier_calls' = classifier_calls + wsb_texts + inst_texts
              /\ pc' = "fault"
              /\ UNCHANGED combined_df
         ELSE /\ combined_df' = Combined(wsb.value, inst.value)
              /\ classifier_calls' = classifier_calls + wsb_texts + inst_texts
              /\ pc' = "done"
              /\ UNCHANGED fault
  /\ UNCHANGED <<calcVars, sessVars, reddit_credentials, alpha_vantage_key, news_api_key,
                 events_left, reddit, attempt, posts, queries, wsb_df, institutional_df>>

Next ==
  \/ Construct
  \/ StartFetchWSB
  \/ SearchAttempt
  \/ SearchDone
  \/ ListingAttempt
  \/ GetInstitutionalSentiment
  \/ MergeAll

Spec == Init /\ [][Next]_vars

(***************************************************************************)
(* The other entry point: main() of visualizations/sentiment_dashboard.py.  *)
(* It fetches the news, then the posts (the actions of fetch_wsb_posts      *)
(* above, which leave off at pc = "get_institutional_sentiment"), scores    *)
(* both frames and shows the result.                                        *)
(***************************************************************************)
InitDashboard ==
  /\ calc_df = <<>>
  /\ calc_out = Pending
  /\ reddit_credentials \in BOOLEAN
  /\ alpha_vantage_key \in {"", "key"}
  /\ news_api_key \in {"", "your_news_api_key", "key"}
  /\ pc = "dashboard"
  /\ events_left = MaxEvents
  /\ reddit = "unset"
  /\ attempt = 1
  /\ posts = <<>>
  /\ queries = <<>>
  /\ classifier_calls = 0
  /\ wsb_df = EmptyDataFrame
  /\ institutional_df = EmptyDataFrame
  /\ combined_df = EmptyDataFrame
  /\ fault = NoFault
  /\ SessIdle

\* lines 204-210: SentimentAnalyzer(), InstitutionalSentimentFetcher(),
\* WSBSentimentFetcher()
DashboardConstruct ==
  /\ pc = "dashboard"
  /\ reddit' \in IF reddit_credentials THEN {"client"} ELSE {"none", "unauthenticated"}
  /\ pc' = "dashboard_news"
  /\ UNCHANGED <<calcVars, sessVars, reddit_credentials, alpha_vantage_key, news_api_key,
                 events_left, attempt, posts, queries, classifier_calls, wsb_df,
                 institutional_df, combined_df, fault>>

\* line 213, followed by line 214
DashboardNews == InstitutionalCall("dashboard_news", "fetch_wsb_posts")

\* a frame scored by analyze_dataframe and tagged with its source (lines 219-220
\* and 224-225)
Scored(df, label) ==
  IF IsEmpty(df) THEN Returned(df)
  ELSE LET scored == analyze_dataframe(df)
       IN  IF scored.raised /= "none" THEN scored
           ELSE Returned(WithColumn(scored.value, "source", label))

\* lines 216-241: both frames are handed to analyze_dataframe, the news frame
\* with the scores get_institutional_sentiment gave it; the exception of a text
\* the classifier fails on is shown as an error
DashboardProcess ==
  /\ pc = "get_institutional_sentiment"
  /\ LET wsb  == Scored(wsb_df, WSB)
         news == IF wsb.raised /= "none" THEN wsb ELSE Scored(institutional_df, NEWS)
     IN  IF wsb.raised /= "none"
         THEN /\ classifier_calls' = classifier_calls + TextsAnalysed(wsb_df)
              /\ fault' = [raised |-> wsb.raised, in |-> "main"]
              /\ pc' = "fault"
              /\ UNCHANGED combined_df
         ELSE /\ classifier_calls' = classifier_calls + TextsAnalysed(wsb_df)
                                       + TextsAnalysed(institutional_df)
              /\ IF news.raised /= "none"
                 THEN /\ fault' = [raised |-> news.raised, in |-> "main"]
                      /\ pc' = "fault"
                      /\ UNCHANGED combined_df
                 ELSE /\ combined_df' = Concat(news.value, wsb.value)
                      /\ pc' = "done"
                      /\ UNCHANGED fault
  /\ UNCHANGED <<calcVars, sessVars, reddit_credentials, alpha_vantage_key, news_api_key,
                 events_left, reddit, attempt, posts, queries, wsb_df, institutional_df>>

NextDashboard ==
  \/ DashboardConstruct
  \/ DashboardNews
  \/ StartFetchWSB
  \/ SearchAttempt
  \/ SearchDone
  \/ ListingAttempt
  \/ DashboardProcess

SpecDashboard == InitDashboard /\ [][NextDashboard]_vars

(***************************************************************************)
(* main() of main.py, run again and again in one session.  What the two     *)
(* fetchers return in a run is an input of the run.                         *)
(***************************************************************************)
\* what the sidebar can select: (selected_ticker, days_lookback)
Queries == {<<"AAPL", 7>>, <<"AAPL", 30>>, <<"NVDA", 7>>}

\* what fetch_wsb_posts can return: nothing, a post, a post the classifier fails on
WSBResults(tk) ==
  {EmptyDataFrame,
   DataFrame(<<PostDict(Submission(1), Submission(1).created_utc, tk)>>),
   DataFrame(<<PostDict(Submission(7), Submission(7).created_utc, tk)>>)}

\* what get_institutional_sentiment can come to: nothing, a scored article, an
\* exception of the classifier
InstitutionalResults(tk) ==
  {Returned(EmptyDataFrame),
   analyze_dataframe(WithColumn(DataFrame(NewsRows(<<1>>)), "ticker", tk)),
   Raised("ClassifierError")}

\* fetch_all_sentiment_data given what the fetchers come to: the merged frame, or
\* the exception that leaves it
fetch_all_sentiment_data(wsb, institutional) ==
  IF institutional.raised /= "none" THEN institutional
  ELSE LET w == Prepared(wsb, WSB, TRUE)
           n == Prepared(institutional.value, NEWS, FALSE)
       IN  IF w.raised /= "none" THEN w
           ELSE IF n.raised /= "none" THEN n
           ELSE Returned(Combined(w.value, n.value))

\* lines 77-84 with the cache left as it is when the selection changes
SessionUpdate_NoClear(state, entries, query) ==
  [state |-> query, cache |-> entries]

\* lines 77-84 of main(): the session state and the cache after them
SessionUpdate(state, entries, query) ==
  IF state = <<>> THEN [state |-> query, cache |-> entries]
  ELSE IF state[1] /= query[1] \/ state[2] /= query[2]
       THEN [state |-> query, cache |-> {}]          \* st.cache_data.clear()
       ELSE [state |-> state, cache |-> entries]

\* lines 88-97 without the test of combined_df.empty
MainView_AlwaysRender(combined) ==
  [view |-> "dashboard", score |-> calculate_weighted_sentiment(combined.rows)]

\* lines 88-97 of main(): the no-data message, or the index and the dashboard
MainView(combined) ==
  IF IsEmpty(combined) THEN [view |-> "no data", score |-> NoScore]
  ELSE [view |-> "dashboard", score |-> calculate_weighted_sentiment(combined.rows)]

\* a cache entry is served while it is younger than ttl
Fresh(entry) == clock - entry.stored_at < TTL

\* the entries after a new one is stored: expired entries and the entry of the
\* same key go, and so does the oldest entry when max_entries is reached
Stored(entries, entry) ==
  LET live == {e \in entries : Fresh(e) /\ e.key /= entry.key}
      kept == IF Cardinality(live) < MAX_ENTRIES THEN live
              ELSE live \ {CHOOSE e \in live : \A f \in live : e.stored_at <= f.stored_at}
  IN  kept \cup {entry}

\* one run of main()
RunMain ==
  /\ \E query \in Queries :
     \E wsb \in WSBResults(query[1]), institutional \in InstitutionalResults(query[1]) :
       LET update == SessionUpdate(session_state, cache, query)
           hits   == {e \in update.cache : e.key = query /\ Fresh(e)}
           hit    == hits /= {}
           entry  == CHOOSE e \in hits : TRUE
           result == IF hit THEN Returned(entry.value)
                     ELSE fetch_all_sentiment_data(wsb, institutional)
       IN  \* a hit asks nothing of the fetchers
           /\ hit => (wsb = EmptyDataFrame /\ institutional = Returned(EmptyDataFrame))
           /\ session_state' = update.state
           /\ cache' = IF hit \/ result.raised /= "none" THEN update.cache
                       ELSE Stored(update.cache,
                                   [key |-> query, value |-> result.value, stored_at |-> clock])
           /\ shown' = IF result.raised /= "none"
                       THEN [NothingShown EXCEPT !.query = query, !.view = "error",
                                                 !.at = clock,
                                                 !.changed = session_state \notin {<<>>, query}]
                       ELSE MainView(result.value) @@
                            [query |-> query, data |-> result.value, fresh |-> ~hit,
                             computed_at |-> IF hit THEN entry.stored_at ELSE clock,
                             at |-> clock,
                             wsb_empty |-> ~hit /\ IsEmpty(wsb),
                             news_empty |-> ~hit /\ IsEmpty(institutional.value),
                             changed |-> session_state \notin {<<>>, query}]
  /\ UNCHANGED <<calcVars, pipeVars, clock>>

\* time passes between two runs
Tick ==
  /\ clock < StartClock + MaxTicks * TICK
  /\ clock' = clock + TICK
  /\ UNCHANGED <<calcVars, pipeVars, session_state, cache, shown>>

InitSession ==
  /\ calc_df = <<>>
  /\ calc_out = Pending
  /\ reddit_credentials = FALSE
  /\ alpha_vantage_key = ""
  /\ news_api_key = ""
  /\ PipeIdle
  /\ SessIdle

NextSession ==
  \/ RunMain
  \/ Tick

SpecSession == InitSession /\ [][NextSession]_vars

CalcDone == calc_out /= Pending

PresentSources == {calc_df[i].source : i \in DOMAIN calc_df}

\* C1: for every non-empty DataFrame whose positive and negative scores lie in
\* [0, 1], whatever the source labels (listed in the weight table or not),
\* calculate_weighted_sentiment returns a value in [-1, 1].
WeightedIndexInRange ==
  (CalcDone /\ calc_df /= <<>>) =>
    /\ calc_out.raised = "none"
    /\ FLe(FNeg(FOne), calc_out.value)
    /\ FLe(calc_out.value, FOne)

\* an index at the upper end of the range, from a listed and an unlisted source
WeightedIndexInRange_Witness ==
  /\ CalcDone
  /\ {NEWS, UNLISTED} \subseteq PresentSources
  /\ calc_out.value = FOne

\* The weighted average in exact arithmetic, as the fraction ExactNum / ExactDen:
\* the scores are tenths, the weights 7/10, 3/10 and 5/10.
DecimalWeight(source) == IF source = NEWS THEN 7 ELSE IF source = WSB THEN 3 ELSE 5

RowCount(source) == Len(SourceDf(calc_df, source))

RECURSIVE TenthsNet(_)
TenthsNet(rows) ==
  IF rows = <<>> THEN 0
  ELSE Head(rows).positive - Head(rows).negative + TenthsNet(Tail(rows))

Count1(source) == IF source \in PresentSources THEN RowCount(source) ELSE 1

CountProduct == Count1(NEWS) * Count1(WSB) * Count1(UNLISTED)

ExactTerm(source) ==
  IF source \in PresentSources
  THEN DecimalWeight(source) * TenthsNet(SourceDf(calc_df, source))
         * (CountProduct \div RowCount(source))
  ELSE 0

ExactNum == ExactTerm(NEWS) + ExactTerm(WSB) + ExactTerm(UNLISTED)

PresentWeight(source) == IF source \in PresentSources THEN DecimalWeight(source) ELSE 0

ExactDen == 10 * CountProduct * (PresentWeight(NEWS) + PresentWeight(WSB) + PresentWeight(UNLISTED))

BNat(n) == Trim(<<n % Base, n \div Base>>)

\* | x - num / den | <= 2^-45, for a double x of magnitude below 2 and den > 0
WithinTolerance(x, num, den) ==
  LET k    == IF x.m = <<>> THEN 60 ELSE -x.e
      A    == BMulSmall(x.m, den)
      B    == BShl(BNat(IF num < 0 THEN -num ELSE num), k)
      same == x.m = <<>> \/ num = 0 \/ ((x.s = 1) <=> (num < 0))
      diff == IF same THEN (IF BCmp(A, B) >= 0 THEN BSub(A, B) ELSE BSub(B, A))
                      ELSE BAdd(A, B)
  IN  BCmp(diff, BShl(BNat(den), k - 45)) <= 0

\* | x - y | <= | y | * 2^-51
RelativelyClose(x, y) ==
  FLe(FAbs(FSub(x, y)), FMul(FAbs(y), [s |-> 0, m |-> BShl(<<1>>, 52), e |-> -103]))

Double_0_4 == FDivNat(FromNat(4), 10)
Double_0_6 == FDivNat(FromNat(6), 10)
Double_0_2 == FDivNat(FromNat(2), 10)
Double_0_36 == FDivNat(FromNat(36), 100)
\* 0.39999999999999997, the double just below 0.4
Double_Below_0_4 == [Double_0_4 EXCEPT !.m = BSub(Double_0_4.m, <<1>>)]

NewsWithSocialExample ==
  /\ PresentSources = {NEWS, WSB}
  /\ NetSentiment(calc_df, NEWS) = Double_0_6
  /\ NetSentiment(calc_df, WSB) = FNeg(Double_0_2)

\* C2 as stated: a single source yields exactly that source's net, and news net
\* 0.6 with social net -0.2 gives 0.36.
SingleSourceExact ==
  (CalcDone /\ calc_df /= <<>>) =>
    /\ \A s \in Sources :
         PresentSources = {s} => calc_out.value = NetSentiment(calc_df, s)
    /\ NewsWithSocialExample => calc_out.value = Double_0_36

\* C2 amended: the index is sum(net_s * weight_s) / sum(weight_s) over the sources
\* present, weights 0.7, 0.3 and 0.5, evaluated in double precision: it is the
\* exact weighted average of the per-source nets up to rounding; a single source
\* yields its net with a relative error of at most 2^-51, exactly for an unlisted
\* label, and not always exactly (news-only net 0.4 gives 0.39999999999999997);
\* news net 0.6 with social net -0.2 gives 0.36.
WeightedIndexFormula ==
  (CalcDone /\ calc_df /= <<>>) =>
    /\ calc_out.raised = "none"
    /\ WithinTolerance(calc_out.value, ExactNum, ExactDen)
    /\ \A s \in Sources :
         PresentSources = {s} =>
           /\ RelativelyClose(calc_out.value, NetSentiment(calc_df, s))
           /\ s = UNLISTED => calc_out.value = NetSentiment(calc_df, s)
    /\ (PresentSources = {NEWS} /\ NetSentiment(calc_df, NEWS) = Double_0_4)
         => calc_out.value = Double_Below_0_4
    /\ NewsWithSocialExample => calc_out.value = Double_0_36

\* news-only records of net 0.4, for which the index is not 0.4
WeightedIndexFormula_Witness ==
  /\ CalcDone
  /\ PresentSources = {NEWS}
  /\ NetSentiment(calc_df, NEWS) = Double_0_4
  /\ calc_out.value /= Double_0_4

\* the two-source example of the claim
NewsWithSocial_Reached == CalcDone /\ NewsWithSocialExample /\ calc_out.value = Double_0_36

\* C3: calculate_weighted_sentiment of an empty DataFrame returns exactly 0.0
\* and raises nothing.
EmptyGivesZero == (CalcDone /\ calc_df = <<>>) => calc_out = Returned(FZero)

EmptyGivesZero_Witness == CalcDone /\ calc_df = <<>> /\ calc_out.value = FZero

(***************************************************************************)
(* The fetch pipeline                                                       *)
(***************************************************************************)
\* fetch_wsb_posts has returned
WSBReturned == pc \in {"get_institutional_sentiment", "merge", "done", "fault"}

\* get_institutional_sentiment has returned or raised
InstitutionalLeft == pc \in {"merge", "done", "fault"}

Searches == SelectSeq(queries, LAMBDA q : q.call = "search")

\* C4: when fetch_all_sentiment_data returns, with m rows from fetch_wsb_posts and
\* n rows from get_institutional_sentiment, the combined frame has exactly m + n
\* rows: the m social rows in order, each tagged WallStreetBets, then the n news
\* rows in order, each tagged Financial News.
MergeKeepsEveryRecord ==
  pc = "done" =>
    LET m == Len(wsb_df.rows)
        n == Len(institutional_df.rows)
    IN  /\ Len(combined_df.rows) = m + n
        /\ \A i \in 1..m :
             /\ combined_df.rows[i].source = WSB
             /\ combined_df.rows[i].url = wsb_df.rows[i].url
             /\ combined_df.rows[i].text = wsb_df.rows[i].text
        /\ \A j \in 1..n :
             /\ combined_df.rows[m + j].source = NEWS
             /\ combined_df.rows[m + j].url = institutional_df.rows[j].url
             /\ combined_df.rows[m + j].text = institutional_df.rows[j].text

\* a merge of a non-empty social frame with a non-empty news frame
MergeKeepsEveryRecord_Witness ==
  /\ pc = "done"
  /\ wsb_df.rows /= <<>>
  /\ institutional_df.rows /= <<>>
  /\ Len(combined_df.rows) = Len(wsb_df.rows) + Len(institutional_df.rows)

\* C5: no two rows of the frame fetch_wsb_posts returns have the same url, also
\* when a submission is returned by more than one search or listing.
NoDuplicateUrls ==
  \A i, j \in DOMAIN wsb_df.rows :
    i /= j => wsb_df.rows[i].url /= wsb_df.rows[j].url

\* C6: every row returned by fetch_wsb_posts and by get_institutional_sentiment
\* has its timestamp in [now - days, now].
AllWithinWindow ==
  /\ \A i \in DOMAIN wsb_df.rows :
       start_date <= wsb_df.rows[i].timestamp /\ wsb_df.rows[i].timestamp <= end_date
  /\ \A i \in DOMAIN institutional_df.rows :
       /\ start_date <= institutional_df.rows[i].timestamp
       /\ institutional_df.rows[i].timestamp <= end_date

AllCredentialsMissing ==
  ~reddit_credentials /\ alpha_vantage_key = "" /\ news_api_key = ""

\* C7: without Reddit credentials fetch_wsb_posts accumulates nothing and returns
\* an empty frame; without its key a news provider is never requested; without
\* both keys get_institutional_sentiment returns an empty frame; and with all
\* credentials missing no text reaches the classifier and no exception leaves.
NoCredentialsGivesEmpty ==
  /\ ~reddit_credentials => posts = <<>>
  /\ (~reddit_credentials /\ WSBReturned) => IsEmpty(wsb_df)
  /\ alpha_vantage_key = "" => \A i \in DOMAIN queries : queries[i].call /= "alpha_vantage"
  /\ news_api_key = "" => \A i \in DOMAIN queries : queries[i].call /= "news_api"
  /\ (alpha_vantage_key = "" /\ news_api_key = "" /\ InstitutionalLeft) =>
       IsEmpty(institutional_df)
  /\ AllCredentialsMissing =>
       /\ classifier_calls = 0
       /\ fault = NoFault
       /\ pc /= "fault"
       /\ IsEmpty(combined_df)

\* a whole run without credentials, in which Reddit was asked and refused
NoCredentialsGivesEmpty_Witness ==
  /\ AllCredentialsMissing
  /\ pc = "done"
  /\ queries /= <<>>
  /\ IsEmpty(wsb_df)
  /\ IsEmpty(institutional_df)

\* the list fetch_wsb_posts holds after a step of its loops
AccumulatedNext ==
  IF pc' \in {"search", "search_done", "listings"} THEN posts' ELSE wsb_df'.rows

\* a submission whose processing raises
Broken(id) == Submission(id).created_utc = NoTime

\* one iteration of the search loop or the listing loop keeps what was accumulated
\* and, after an exception, goes on with the next time filter or listing
WSBLoopStep ==
  pc \in {"search", "listings"} =>
     LET call == queries'[Len(queries')]
     IN  /\ Len(queries') = Len(queries) + 1
         /\ Len(AccumulatedNext) >= Len(posts)
         /\ SubSeq(AccumulatedNext, 1, Len(posts)) = posts
         /\ \A ids \in {h \in Ascending(1, 2) : \E i \in DOMAIN h : Broken(h[i])} :
              ProcessPosts(posts, ids, ticker, start_date, end_date)
                = ProcessPosts(posts, SelectSeq(ids, LAMBDA id : ~Broken(id)),
                               ticker, start_date, end_date)
         /\ (call.raised /\ attempt < 3) => (pc' = pc /\ attempt' = attempt + 1)
         /\ (call.raised /\ attempt = 3) =>
              pc' = (IF pc = "search" THEN "search_done"
                     ELSE "get_institutional_sentiment")
         /\ fault' = NoFault
         /\ pc' /= "fault"

\* C8: in fetch_wsb_posts an exception while one post is processed leaves out that
\* post only, and an exception of a search or a listing ends that search or listing
\* only: the matches accumulated so far stay in the list, the next time filter or
\* listing is tried, and no exception leaves fetch_wsb_posts.
ErrorsCostOneAttempt == [][WSBLoopStep]_vars

\* a search that raised after a match had been found, the next filter searched,
\* and the match returned
ErrorsCostOneAttempt_Witness ==
  /\ pc = "get_institutional_sentiment"
  /\ ~IsEmpty(wsb_df)
  /\ \E i \in DOMAIN queries :
       /\ queries[i].call = "search"
       /\ queries[i].raised
       /\ queries[i].had > 0
       /\ i < Len(queries)
       /\ queries[i + 1].call = "search"
       /\ Len(wsb_df.rows) >= queries[i].had

\* C9: no exception of the classifier leaves get_institutional_sentiment or
\* fetch_all_sentiment_data.
ClassifierFailureContained ==
  fault = NoFault /\ pc /= "fault"

\* C10: the searches are made in the order day, week, month; a wider time filter
\* is searched only when fewer than 50 matches have been accumulated; and the
\* search loop is left only after the month search or with 50 matches or more.
WidenOnlyBelowTarget ==
  /\ \A i \in DOMAIN Searches : Searches[i].arg = time_filters[i]
  /\ \A i \in DOMAIN Searches :
       /\ i > 1 => Searches[i].had < MIN_POSTS
       /\ i < Len(Searches) => Searches[i].had <= Searches[i + 1].had
  /\ pc = "search" => Len(posts) < MIN_POSTS
  /\ pc = "search_done" => (Len(Searches) = Len(time_filters) \/ Len(posts) >= MIN_POSTS)


\* the ticker, in any case, occurs in the text
Mentions(text) ==
  \E i \in 1..(Len(text) - 1) :
    /\ text[i] \in {"a", "A"}
    /\ text[i + 1] \in {"b", "B"}

\* the submission a row was made from
SubmissionOf(row) == Submission(row.url[2])

\* a row of the social frame passes the time window and names the ticker
PassesFilters(row) ==
  /\ start_date <= row.timestamp
  /\ row.timestamp <= end_date
  /\ Mentions(SubmissionOf(row).title) \/ Mentions(SubmissionOf(row).selftext)

\* the listings are read exactly when the search loop ends without a match, which
\* takes all three searches; and whatever the listings add passes the filters
FallbackStep ==
  /\ pc = "search_done" =>
       /\ (pc' = "listings") <=> (posts = <<>>)
       /\ posts /= <<>> => (pc' = "get_institutional_sentiment" /\ wsb_df'.rows = posts)
  /\ (Len(queries') > Len(queries) /\ queries'[Len(queries')].call = "listing") =>
       /\ pc = "listings"
       /\ Len(Searches) = Len(time_filters)
       /\ \A i \in DOMAIN Searches : Searches[i].had = 0
       /\ queries'[Len(queries')].had = Len(posts)
  /\ pc = "listings" =>
       \A i \in DOMAIN AccumulatedNext : PassesFilters(AccumulatedNext[i])
  /\ pc' = "listings" => pc \in {"search_done", "listings"}

\* C11: the hot/new/top listings are read if and only if the searches over all
\* time filters left no match (also when searches raised), and every row taken
\* from a listing is inside the time window and names the ticker.
FallbackIffNoMatch == [][FallbackStep]_vars

\* a run in which a search raised, no search matched, and a listing gave the rows
FallbackIffNoMatch_Witness ==
  /\ WSBReturned
  /\ ~IsEmpty(wsb_df)
  /\ \E i \in DOMAIN queries : queries[i].call = "search" /\ queries[i].raised
  /\ \E i \in DOMAIN queries : queries[i].call = "listing"
  /\ \A i \in DOMAIN wsb_df.rows : PassesFilters(wsb_df.rows[i])

\* C12: every row fetch_wsb_posts accumulates or returns, from a search or from a
\* listing, has the ticker, in any case, in the title or the body of its
\* submission; a submission without the ticker is never a row.
TickerInEveryRecord ==
  /\ \A i \in DOMAIN posts :
       Mentions(SubmissionOf(posts[i]).title) \/ Mentions(SubmissionOf(posts[i]).selftext)
  /\ \A i \in DOMAIN wsb_df.rows :
       /\ Mentions(SubmissionOf(wsb_df.rows[i]).title)
            \/ Mentions(SubmissionOf(wsb_df.rows[i]).selftext)
       /\ Mentions(wsb_df.rows[i].text)
       /\ wsb_df.rows[i].url[2] /= 5

\* rows for an upper-case title and for a lower-case body, found by the search
TickerInEveryRecord_Witness ==
  /\ WSBReturned
  /\ {wsb_df.rows[i].url[2] : i \in DOMAIN wsb_df.rows} = {1, 2}
  /\ \A i \in DOMAIN queries : queries[i].call = "search"


\* the scores a row carries
TripleOf(row) ==
  [negative |-> row.negative, neutral |-> row.neutral, positive |-> row.positive]

\* C16: analyze_dataframe returns one row per input row, in the same order: the
\* i-th row of the scored social frame is the i-th row fetch_wsb_posts returned,
\* its columns unchanged, with the classifier's scores for its own text; and every
\* scored news row carries the scores for its own text.
ScoringKeepsOrder ==
  /\ pc = "done" =>
       /\ Len(combined_df.rows) >= Len(wsb_df.rows)
       /\ \A i \in DOMAIN wsb_df.rows :
            /\ \A c \in DOMAIN wsb_df.rows[i] \cap DOMAIN combined_df.rows[i] :
                 combined_df.rows[i][c] = wsb_df.rows[i][c]
            /\ {"text", "url", "timestamp"} \subseteq DOMAIN combined_df.rows[i]
            /\ TripleOf(combined_df.rows[i]) = analyze_text(wsb_df.rows[i].text)
  /\ \A i \in DOMAIN institutional_df.rows :
       TripleOf(institutional_df.rows[i]) = analyze_text(institutional_df.rows[i].text)

\* two social rows with different scores, scored and returned
ScoringKeepsOrder_Witness ==
  /\ pc = "done"
  /\ Len(wsb_df.rows) = 2
  /\ analyze_text(wsb_df.rows[1].text) /= analyze_text(wsb_df.rows[2].text)
  /\ TripleOf(combined_df.rows[1]).positive = 8
  /\ TripleOf(combined_df.rows[2]).negative = 6


\* the items of the Alpha Vantage feed published inside the window
InWindowItems ==
  SelectSeq(AlphaVantageFeed,
            LAMBDA item : start_date <= item.time_published /\ item.time_published <= end_date)

\* C17: when the Alpha Vantage request answers 200 with a feed that has an item
\* inside the window, get_institutional_sentiment returns one row per such item
\* and the News API is not requested; the News API is requested only after Alpha
\* Vantage failed or had no such item.
AlphaVantageIsPrimary ==
  \A i \in DOMAIN queries :
    (queries[i].call = "alpha_vantage" /\ queries[i].arg = "200" /\ InWindowItems /= <<>>) =>
      /\ \A j \in DOMAIN queries : queries[j].call /= "news_api"
      /\ (InstitutionalLeft /\ pc /= "fault") =>
           Len(institutional_df.rows) = Len(InWindowItems)


\* C15: in a run that ends with a frame to show, no record was handed to the
\* classifier more than once: the classifier was called at most once per record
\* of the frame.
ScoredAtMostOnce ==
  pc = "done" => classifier_calls <= Len(combined_df.rows)


(***************************************************************************)
(* The session of main.py                                                   *)
(***************************************************************************)
\* C13: when fetch_wsb_posts and get_institutional_sentiment both return an empty
\* frame, fetch_all_sentiment_data returns an empty frame (which is cached, no
\* exception), and main() shows the no-data message, computes no index and
\* renders no dashboard; the same when the empty frame comes from the cache.
NoDataIsReported ==
  /\ fetch_all_sentiment_data(EmptyDataFrame, Returned(EmptyDataFrame))
       = Returned(EmptyDataFrame)
  /\ (shown.wsb_empty /\ shown.news_empty) =>
       /\ shown.view = "no data"
       /\ \E e \in cache : e.key = shown.query /\ IsEmpty(e.value) /\ e.stored_at = shown.at
  /\ (shown.view /= "error" /\ IsEmpty(shown.data)) => shown.view \in {"none", "no data"}
  /\ shown.view = "no data" => (IsEmpty(shown.data) /\ shown.score = NoScore)

\* a run in which both fetchers returned nothing
NoDataIsReported_Witness ==
  /\ shown.wsb_empty
  /\ shown.news_empty
  /\ shown.fresh
  /\ shown.view = "no data"

\* C14: what a run shows from the cache was computed for the same ticker and days
\* and on the calendar date of the run.
ServedOnComputedDate ==
  shown.view \in {"no data", "dashboard"} =>
    /\ Date(shown.computed_at) = Date(shown.at)
    /\ \A i \in DOMAIN shown.data.rows : shown.data.rows[i].ticker = shown.query[1]

\* a run of main(): after it the session state holds the run's selection, and when
\* that differs from the previous run's, nothing older than the run is left in the
\* cache and what is shown was fetched in the run
SessionStep ==
  clock' = clock =>
    /\ session_state' = shown'.query
    /\ (session_state /= <<>> /\ session_state /= shown'.query) =>
         /\ shown'.changed
         /\ \A e \in cache' : e.key = shown'.query /\ e.stored_at = clock
         /\ shown'.view /= "error" => (shown'.fresh /\ shown'.computed_at = clock)

\* C18: over the runs of main() in one session, after each run last_ticker and
\* last_days are the run's ticker and days, and a run whose ticker or days differ
\* from the previous run's clears the cache before it fetches, so that what it
\* shows was fetched in that run.
ChangeClearsCache == [][SessionStep]_vars

\* a run with a changed selection, some time into the session, showing the
\* dashboard from data fetched in the run
ChangeClearsCache_Witness ==
  /\ shown.changed
  /\ shown.fresh
  /\ shown.view = "dashboard"
  /\ shown.at > StartClock
  /\ session_state = shown.query
  /\ cache = {[key |-> shown.query, value |-> shown.data, stored_at |-> shown.at]}

====
